---- MODULE Spec2Model ----
(***************************************************************************)
(* Model of src/app.py: the quiz-solving FastAPI service.                  *)
(*                                                                         *)
(* Text is a sequence of tokens; every token is the literal piece of       *)
(* source text it stands for, so that str.replace, str.strip and the       *)
(* regular expressions of the code act on token sequences the way they act *)
(* on the concatenated characters.                                         *)
(*                                                                         *)
(* Two specifications:                                                     *)
(*   Spec    the service: POST /receive_request, the background chains     *)
(*           (process_request), the lru_cache around the LLM call;         *)
(*   SpecFn  the helper functions applied to bounded inputs:               *)
(*           repair_code, run_code_safely, extract_valid_code_blocks.      *)
(***************************************************************************)
EXTENDS Integers, Sequences, FiniteSets, TLC

VARIABLES
    requests,   \* bodies of the POSTs to /receive_request, in arrival order
    responses,  \* the JSONResponse returned for each of them
    tasks,      \* background_tasks: one record per enqueued process_request
    cache,      \* lru_cache of cached_call_aipipe: prompt -> coroutine object
    llmCalls,   \* number of times the body of call_aipipe was entered
    fnText,     \* SpecFn: the input text
    fnUrl,      \* SpecFn: the starturl argument
    fnOp,       \* SpecFn: which function has been applied
    fnOnce,     \* SpecFn: result of the first application
    fnOut,      \* SpecFn: result of the last application
    fnExc,      \* SpecFn: exception that left the function, or "none"
    fnProg      \* SpecFn: what the executed program did, or "none"

svcVars == <<requests, responses, tasks, cache, llmCalls>>
fnVars == <<fnText, fnUrl, fnOp, fnOnce, fnOut, fnExc, fnProg>>
vars == <<requests, responses, tasks, cache, llmCalls,
          fnText, fnUrl, fnOp, fnOnce, fnOut, fnExc, fnProg>>

(***************************************************************************)
(* Bounds                                                                  *)
(***************************************************************************)
MaxRequests == 3
MaxLen == 3
MaxArtifactLen == 4

(***************************************************************************)
(* Text primitives                                                         *)
(***************************************************************************)
None == "None"

\* The fence marker, three backquotes (a TLA+ string cannot hold a backquote).
FENCE == "<3 backquotes>"

WS == {" ", "\n", "\t", "    "}

Last(s) == s[Len(s)]

RECURSIVE Replace(_, _, _)
Replace(s, old, new) ==
    IF Len(s) < Len(old) THEN s
    ELSE IF SubSeq(s, 1, Len(old)) = old
         THEN new \o Replace(SubSeq(s, Len(old) + 1, Len(s)), old, new)
         ELSE <<Head(s)>> \o Replace(Tail(s), old, new)

RECURSIVE LStrip(_)
LStrip(s) == IF s # <<>> /\ Head(s) \in WS THEN LStrip(Tail(s)) ELSE s

RECURSIVE RStrip(_)
RStrip(s) ==
    IF s # <<>> /\ Last(s) \in WS THEN RStrip(SubSeq(s, 1, Len(s) - 1)) ELSE s

Strip(s) == RStrip(LStrip(s))

RECURSIVE ReplaceAll(_, _, _)
ReplaceAll(s, olds, new) ==
    IF olds = <<>> THEN s
    ELSE ReplaceAll(Replace(s, <<Head(olds)>>, new), Tail(olds), new)

(***************************************************************************)
(* The service                                                             *)
(***************************************************************************)
SECRET_KEY == "peacock"

PROMPT == "You must produce ONLY valid Python3 code ..."

Emails == {"a@ds.study", None}
Secrets == {SECRET_KEY, "wrong", None}
Urls == {"https://quiz.test/q1", "https://example.com/quiz"}
BodyUrls == Urls \cup {None}
Bodies == [email : Emails, secret : Secrets, url : BodyUrls]

\* What the language model may answer.
LLMTexts ==
    { <<FENCE, "python", "\n", "x", " ", "=", " ", "<quiz url>", "\n", FENCE>>,
      <<"your_quiz_page_url_here">> }

ProcessPlaceholders ==
    << "<the quiz URL>", "<the quiz URL you fetched>", "<quiz url>",
       "<quiz_url>", "YOUR_START_URL_HERE", "https://example.com/quiz",
       "your_quiz_page_url_here" >>

NewTask(req, data) ==
    [req |-> req, data |-> data, stages |-> <<>>, generated_code |-> <<>>,
     error |-> "none", calls |-> 0, escaped |-> FALSE]

Authorized_NoCheck(body) == TRUE

\* receive_request: data.get("secret") != SECRET_KEY, negated
Authorized(body) == body.secret = SECRET_KEY

Forbidden == [status |-> 403, content |-> [message |-> "Forbidden"]]

Accepted(body) ==
    [status |-> 200,
     content |-> [message |-> "Request received successfully",
                  email |-> body.email]]

\* receive_request
ReceiveRequest(body) ==
    /\ Len(requests) < MaxRequests
    /\ requests' = Append(requests, body)
    /\ IF ~Authorized(body)
       THEN /\ responses' = Append(responses, Forbidden)
            /\ tasks' = tasks
       ELSE /\ tasks' = Append(tasks, NewTask(Len(requests) + 1, body))
            /\ responses' = Append(responses, Accepted(body))
    /\ UNCHANGED <<cache, llmCalls>>
    /\ UNCHANGED fnVars

\* What call_aipipe raises: raise_for_status, a transport error, the timeout.
LLMErrors == {"HTTPStatusError", "TimeoutException"}

\* "except Exception" catches these; all are subclasses of Exception.
CaughtByExcept == LLMErrors \cup {"RuntimeError", "TypeError"}

OnLLMException_NoReturn(t, err) ==
    [t EXCEPT !.stages = @ \o <<"GENERATED", "DONE">>, !.error = err]

\* process_request, except branch: print the error and return.  An
\* exception the clause does not catch would leave process_request.
OnLLMException(t, err) ==
    [t EXCEPT !.stages = Append(@, "FAILED"), !.error = err,
              !.escaped = err \notin CaughtByExcept]

OnGenerated_Redispatch(t, text) ==
    IF t.data.url = None
    THEN OnLLMException(t, "TypeError")
    ELSE [t EXCEPT !.generated_code =
                       ReplaceAll(text, ProcessPlaceholders, <<t.data.url>>),
                   !.stages = @ \o <<"GENERATED", "DISPATCHED">>]

\* process_request, the rest of the try block after the await, and the
\* statement after the try statement.  The call of run_code_safely sits in
\* the except branch behind its return, so control never reaches it.
OnGenerated(t, text) ==
    IF t.data.url = None
    THEN OnLLMException(t, "TypeError")
    ELSE [t EXCEPT !.generated_code =
                       ReplaceAll(text, ProcessPlaceholders, <<t.data.url>>),
                   !.stages = @ \o <<"GENERATED", "DONE">>]

\* process_request up to the await of cached_call_aipipe(prompt).
\* lru_cache stores what the async function returns: the coroutine object.
\* A hit hands the same coroutine object to a second awaiter, which raises
\* RuntimeError whether the coroutine is still running or has finished.
StartChain(c) ==
    /\ c \in 1..Len(tasks)
    /\ tasks[c].stages = <<>>
    /\ IF cache[PROMPT].state = "absent"
       THEN /\ cache' = [cache EXCEPT ![PROMPT] =
                                    [state |-> "running", awaiter |-> c]]
            /\ llmCalls' = llmCalls + 1
            /\ tasks' = [tasks EXCEPT ![c].stages = <<"DISPATCHED">>,
                                      ![c].calls = @ + 1]
       ELSE /\ tasks' = [tasks EXCEPT
                  ![c] = OnLLMException(
                            [tasks[c] EXCEPT !.stages = <<"DISPATCHED">>],
                            "RuntimeError")]
            /\ UNCHANGED <<cache, llmCalls>>
    /\ UNCHANGED <<requests, responses>>
    /\ UNCHANGED fnVars

Awaiting(c) ==
    /\ c \in 1..Len(tasks)
    /\ cache[PROMPT].state = "running"
    /\ cache[PROMPT].awaiter = c

\* call_aipipe returns the response text to the chain that awaits it.
LLMReturn(c, text) ==
    /\ Awaiting(c)
    /\ cache' = [cache EXCEPT ![PROMPT].state = "finished"]
    /\ tasks' = [tasks EXCEPT ![c] = OnGenerated(tasks[c], text)]
    /\ UNCHANGED <<requests, responses, llmCalls>>
    /\ UNCHANGED fnVars

\* call_aipipe raises: timeout, transport error or raise_for_status.
LLMRaise(c, err) ==
    /\ Awaiting(c)
    /\ cache' = [cache EXCEPT ![PROMPT].state = "finished"]
    /\ tasks' = [tasks EXCEPT ![c] = OnLLMException(tasks[c], err)]
    /\ UNCHANGED <<requests, responses, llmCalls>>
    /\ UNCHANGED fnVars

SvcInit ==
    /\ requests = <<>>
    /\ responses = <<>>
    /\ tasks = <<>>
    /\ cache = [p \in {PROMPT} |-> [state |-> "absent", awaiter |-> 0]]
    /\ llmCalls = 0

FnIdle ==
    /\ fnText = <<>>
    /\ fnUrl = None
    /\ fnOp = "none"
    /\ fnOnce = <<>>
    /\ fnOut = <<>>
    /\ fnExc = "none"
    /\ fnProg = "none"

Init == SvcInit /\ FnIdle

Next ==
    \/ \E body \in Bodies : ReceiveRequest(body)
    \/ \E c \in 1..MaxRequests : StartChain(c)
    \/ \E c \in 1..MaxRequests, text \in LLMTexts : LLMReturn(c, text)
    \/ \E c \in 1..MaxRequests, err \in LLMErrors : LLMRaise(c, err)

Spec == Init /\ [][Next]_vars

(***************************************************************************)
(* More text primitives: the classes \s and [\w\.] of the regular          *)
(* expressions, on tokens.  No token holds white space next to other       *)
(* characters except the placeholders, whose inner blanks are followed by  *)
(* a ">" and so can never take part in a match.                            *)
(***************************************************************************)
WordToks ==
    {"await", "client", "python", "PYTHON", "async", "with", "as", "import",
     "httpx", "re", "def", "main", "pass", "r", "x", "starturl", "_response",
     "YOUR_START_URL_HERE", "your_quiz_page_url_here"}

From(s, i) == IF i > Len(s) THEN <<>> ELSE SubSeq(s, i, Len(s))

RECURSIVE WordRun(_)
WordRun(s) == IF s # <<>> /\ Head(s) \in WordToks THEN 1 + WordRun(Tail(s)) ELSE 0

RECURSIVE WsRun(_)
WsRun(s) == IF s # <<>> /\ Head(s) \in WS THEN 1 + WsRun(Tail(s)) ELSE 0

HasSub(s, pat) ==
    \E i \in 1..(Len(s) - Len(pat) + 1) : SubSeq(s, i, i + Len(pat) - 1) = pat

Min(S) == CHOOSE m \in S : \A n \in S : m <= n

(***************************************************************************)
(* The repair steps shared, as text, by repair_code and run_code_safely    *)
(***************************************************************************)
\* code.replace(fence + "python", "").replace(fence, "").strip()
StripFences(code) ==
    Strip(Replace(Replace(code, <<FENCE, "python">>, <<>>), <<FENCE>>, <<>>))

\* code.replace("await await ", "await ").replace("await  await", "await ")
CollapseAwait(code) ==
    Replace(Replace(code, <<"await", " ", "await", " ">>, <<"await", " ">>),
            <<"await", " ", " ", "await">>, <<"await", " ">>)

\* re.sub(r"(\s)([\w\.]+)\.get\(", r"\1await \2.get(", code)
RECURSIVE AwaitSub(_)
AwaitSub(s) ==
    IF s = <<>> THEN <<>>
    ELSE LET k == WordRun(Tail(s))
         IN IF Head(s) \in WS /\ k >= 1 /\ Len(s) >= k + 2 /\ s[k + 2] = ".get("
            THEN <<Head(s), "await", " ">> \o SubSeq(s, 2, k + 2)
                     \o AwaitSub(From(s, k + 3))
            ELSE <<Head(s)>> \o AwaitSub(Tail(s))

\* The part ")\s+as\s+(\w+):" of the second pattern, with ")" at index a.
AsTail(s, a) ==
    LET q == a + 1 + WsRun(From(s, a + 1))
        n == q + 1 + WsRun(From(s, q + 1))
        k == WordRun(From(s, n))
    IN  [ok |-> /\ q > a + 1 /\ q <= Len(s) /\ s[q] = "as"
                /\ n > q + 1 /\ k >= 1
                /\ n + k <= Len(s) /\ s[n + k] = ":",
         name |-> IF k >= 1 THEN SubSeq(s, n, n + k - 1) ELSE <<>>,
         end |-> n + k]

\* A match of r"async with\s+([\w\.]+)\.get\((.*?)\)\s+as\s+(\w+):" at the
\* head of s; "." does not match a newline and (.*?) takes the shortest.
AsyncWithMatch(s) ==
    LET p == 4 + WsRun(From(s, 4))
        k == WordRun(From(s, p))
        g == p + k
        Closers == {a \in (g + 1)..Len(s) :
                       /\ s[a] = ")"
                       /\ \A i \in (g + 1)..(a - 1) : s[i] # "\n"
                       /\ AsTail(s, a).ok}
    IN  IF /\ Len(s) >= 3 /\ SubSeq(s, 1, 3) = <<"async", " ", "with">>
           /\ p > 4 /\ k >= 1 /\ g <= Len(s) /\ s[g] = ".get("
           /\ Closers # {}
        THEN LET a == Min(Closers)
             IN [ok |-> TRUE, path |-> SubSeq(s, p, g - 1),
                 args |-> SubSeq(s, g + 1, a - 1),
                 name |-> AsTail(s, a).name, end |-> AsTail(s, a).end]
        ELSE [ok |-> FALSE, path |-> <<>>, args |-> <<>>, name |-> <<>>,
              end |-> 0]

\* re.sub(<that pattern>, r"\1_response = await \1.get(\2)\n    \3 = \1_response", code)
RECURSIVE AsyncWithSub(_)
AsyncWithSub(s) ==
    IF s = <<>> THEN <<>>
    ELSE LET m == AsyncWithMatch(s)
         IN IF m.ok
            THEN m.path \o <<"_response", " ", "=", " ", "await", " ">>
                     \o m.path \o <<".get(">> \o m.args
                     \o <<")", "\n", " ", " ", " ", " ">> \o m.name
                     \o <<" ", "=", " ">> \o m.path \o <<"_response">>
                     \o AsyncWithSub(From(s, m.end + 1))
            ELSE <<Head(s)>> \o AsyncWithSub(Tail(s))

SubmitPlaceholders == << "<submit url>", "<the quiz submission URL>" >>

\* The two code.replace(<submit placeholder>, "")
BlankSubmit(code) == ReplaceAll(code, SubmitPlaceholders, <<>>)

\* if "import httpx" not in code ... if "import re" not in code ...
EnsureImports(code) ==
    LET c1 == IF HasSub(code, <<"import", " ", "httpx">>) THEN code
              ELSE <<"import", " ", "httpx", "\n">> \o code
    IN  IF HasSub(c1, <<"import", " ", "re">>) THEN c1
        ELSE <<"import", " ", "re", "\n">> \o c1

\* if "async def main" not in code: code += "\n\nasync def main():\n    pass\n"
EnsureMain(code) ==
    IF HasSub(code, <<"async", " ", "def", " ", "main">>) THEN code
    ELSE code \o <<"\n", "\n", "async", " ", "def", " ", "main", "():", "\n",
                   " ", " ", " ", " ", "pass", "\n">>

\* "\n".join(line.replace("\t", "    ") for line in code.splitlines()).strip()
NormalizeTabs(code) == Strip(Replace(code, <<"\t">>, <<" ", " ", " ", " ">>))

RepairPlaceholders ==
    << "<the quiz URL>", "<the quiz URL you fetched>", "<quiz url>",
       "<quiz_url>", "YOUR_START_URL_HERE", "https://example.com/quiz" >>

RepairPlaceholdersAgain ==
    << "<the quiz URL>", "<the quiz URL you fetched>", "<quiz url>",
       "<quiz_url>" >>

RunPlaceholders ==
    << "<the quiz URL>", "<the quiz URL you fetched>", "<quiz url>",
       "<quiz_url>", "YOUR_START_URL_HERE" >>

repair_code(code, starturl) ==
    LET c1 == AsyncWithSub(AwaitSub(CollapseAwait(StripFences(code))))
        c2 == ReplaceAll(c1, RepairPlaceholders, <<starturl>>)
        c3 == ReplaceAll(c2, RepairPlaceholdersAgain, <<starturl>>)
    IN  NormalizeTabs(EnsureMain(EnsureImports(BlankSubmit(c3))))

\* The repair part of run_code_safely: the value of repaired_code.
repaired_code(code, starturl) ==
    LET c1 == AsyncWithSub(AwaitSub(CollapseAwait(StripFences(code))))
        c2 == ReplaceAll(c1, RunPlaceholders, <<starturl>>)
    IN  NormalizeTabs(EnsureMain(EnsureImports(BlankSubmit(c2))))

\* exec(wrapper, env) and await env["__tmp_func"](): what the generated
\* program does is not fixed by the service; nothing in run_code_safely
\* catches what it raises.
ProgramBehaviours == {"returns", "SyntaxError", "Exception"}

run_code_safely_exc(behaviour) ==
    IF behaviour = "returns" THEN "none" ELSE behaviour

(***************************************************************************)
(* The extractor                                                           *)
(***************************************************************************)
\* A text whose nesting is too deep for the parser: "-" repeated, then "1".
DEEP == "-----(100000 times)-----1"

\* ast.parse on the token alphabet {FENCE, words, "\n", ")", "#", DEEP}:
\* "#" opens a comment that runs to the end of the line; outside comments a
\* fence or a ")" is a syntax error and DEEP exhausts the parser
\* (MemoryError), whichever comes first; glued words are one identifier.
RECURSIVE ParseScan(_, _)
ParseScan(s, comment) ==
    IF s = <<>> THEN "ok"
    ELSE IF Head(s) = "\n" THEN ParseScan(Tail(s), FALSE)
    ELSE IF comment THEN ParseScan(Tail(s), TRUE)
    ELSE IF Head(s) = "#" THEN ParseScan(Tail(s), TRUE)
    ELSE IF Head(s) \in {FENCE, ")"} THEN "SyntaxError"
    ELSE IF Head(s) = DEEP THEN "MemoryError"
    ELSE ParseScan(Tail(s), FALSE)

ast_parse(code) == ParseScan(code, FALSE)

\* Only SyntaxError is caught; anything else leaves validate_python.
validate_python(code) ==
    LET r == ast_parse(code)
    IN  IF r = "ok" THEN "True" ELSE IF r = "SyntaxError" THEN "False" ELSE r

\* Index of the first k >= j such that From(s, k) is white space followed by
\* a fence; 0 when there is none.
ClosingAt(s, j) ==
    LET Ks == {k \in j..Len(s) :
                 LET m == k + WsRun(From(s, k)) IN m <= Len(s) /\ s[m] = FENCE}
    IN  IF Ks = {} THEN 0 ELSE Min(Ks)

\* re.findall(fence + r"(?:python)?\s*(.*?)\s*" + fence, text, DOTALL | IGNORECASE)
RECURSIVE FindBlocks(_)
FindBlocks(s) ==
    IF s = <<>> THEN <<>>
    ELSE IF Head(s) # FENCE THEN FindBlocks(Tail(s))
    ELSE LET t == IF Len(s) >= 2 /\ s[2] \in {"python", "PYTHON"} THEN 3 ELSE 2
             j == t + WsRun(From(s, t))
             k == ClosingAt(s, j)
         IN  IF k = 0 THEN FindBlocks(Tail(s))
             ELSE <<SubSeq(s, j, k - 1)>>
                      \o FindBlocks(From(s, k + WsRun(From(s, k)) + 1))

RECURSIVE StripEach(_)
StripEach(blocks) ==
    IF blocks = <<>> THEN <<>>
    ELSE <<Strip(Head(blocks))>> \o StripEach(Tail(blocks))

RECURSIVE ValidOnes(_)
ValidOnes(blocks) ==
    IF blocks = <<>> THEN <<>>
    ELSE IF validate_python(Head(blocks)) = "True"
         THEN <<Head(blocks)>> \o ValidOnes(Tail(blocks))
         ELSE ValidOnes(Tail(blocks))

Raises(v) == v \notin {"True", "False"}

extract_valid_code_blocks(response_text) ==
    LET blocks == StripEach(FindBlocks(response_text))
        valid_codes == ValidOnes(blocks)
    IN  IF \E i \in 1..Len(blocks) : Raises(validate_python(blocks[i]))
        THEN [exc |-> "MemoryError", value |-> <<>>]
        ELSE IF valid_codes # <<>>
        THEN [exc |-> "none", value |-> valid_codes]
        ELSE IF Raises(validate_python(response_text))
        THEN [exc |-> "MemoryError", value |-> <<>>]
        ELSE IF validate_python(response_text) = "True"
        THEN [exc |-> "none", value |-> <<response_text>>]
        ELSE [exc |-> "none", value |-> <<>>]

(***************************************************************************)
(* SpecFn: the functions applied to bounded inputs                         *)
(***************************************************************************)
FragmentToks ==
    {" ", "\n", "\t", "await", "client", ".get(", "<quiz url>", "<submit url>",
     "https://example.com/quiz", FENCE, "python"}

ArtifactToks == {FENCE, "python", "\n", "x", ")", "#", DEEP}

SeqsUpTo(A, n) == UNION {[1..k -> A] : k \in 0..n}

SampleTexts ==
    { <<"r", " ", "=", " ", "client", ".get(", "starturl", ")">>,
      <<"r", " ", "=", " ", "await", " ", "client", ".get(", "starturl", ")">>,
      <<"async", " ", "with", " ", "client", ".get(", "starturl", ")", " ",
        "as", " ", "r", ":">>,
      <<"import", " ", "httpx", "\n", "import", " ", "re", "\n", "async", " ",
        "def", " ", "main", "():", "\n", "\t", "pass">>,
      <<"x", " ", "=", " ", "<the quiz URL>", "\n", "r", " ", "=", " ",
        "<the quiz submission URL>">>,
      <<"x", " ", "=", " ", "YOUR_START_URL_HERE", " ", "<quiz_url>", " ",
        "<the quiz URL you fetched>">>,
      <<FENCE, "PYTHON", "\n", "x", "\n", FENCE, "\n", FENCE, "\n", ")", "\n",
        FENCE>> }

Inputs ==
    SeqsUpTo(FragmentToks, MaxLen) \cup SeqsUpTo(ArtifactToks, MaxArtifactLen)
        \cup SampleTexts

FnInit ==
    /\ SvcInit
    /\ fnText \in Inputs
    /\ fnUrl \in Urls
    /\ fnOp = "none"
    /\ fnOnce = <<>>
    /\ fnOut = <<>>
    /\ fnExc = "none"
    /\ fnProg = "none"

CallRepairCode ==
    /\ fnOp = "none"
    /\ fnOp' = "repair_code"
    /\ fnOut' = repair_code(fnText, fnUrl)
    /\ fnOnce' = fnOut'
    /\ UNCHANGED <<fnText, fnUrl, fnExc, fnProg>>
    /\ UNCHANGED svcVars

CallRepairCodeAgain ==
    /\ fnOp = "repair_code"
    /\ fnOp' = "repair_code_twice"
    /\ fnOut' = repair_code(fnOut, fnUrl)
    /\ UNCHANGED <<fnText, fnUrl, fnOnce, fnExc, fnProg>>
    /\ UNCHANGED svcVars

CallRunCodeSafely(behaviour) ==
    /\ fnOp = "none"
    /\ fnOp' = "run_code_safely"
    /\ fnOut' = repaired_code(fnText, fnUrl)
    /\ fnOnce' = fnOut'
    /\ fnProg' = behaviour
    /\ fnExc' = run_code_safely_exc(behaviour)
    /\ UNCHANGED <<fnText, fnUrl>>
    /\ UNCHANGED svcVars

CallRunCodeSafelyAgain(behaviour) ==
    /\ fnOp = "run_code_safely"
    /\ fnOp' = "run_code_safely_twice"
    /\ fnOut' = repaired_code(fnOut, fnUrl)
    /\ fnProg' = behaviour
    /\ fnExc' = run_code_safely_exc(behaviour)
    /\ UNCHANGED <<fnText, fnUrl, fnOnce>>
    /\ UNCHANGED svcVars

CallExtract ==
    /\ fnOp = "none"
    /\ fnOp' = "extract"
    /\ LET r == extract_valid_code_blocks(fnText)
       IN  fnOut' = r.value /\ fnExc' = r.exc
    /\ UNCHANGED <<fnText, fnUrl, fnOnce, fnProg>>
    /\ UNCHANGED svcVars

FnNext ==
    \/ CallRepairCode
    \/ CallRepairCodeAgain
    \/ \E b \in ProgramBehaviours : CallRunCodeSafely(b)
    \/ \E b \in ProgramBehaviours : CallRunCodeSafelyAgain(b)
    \/ CallExtract

SpecFn == FnInit /\ [][FnNext]_vars

(***************************************************************************)
(* Properties                                                              *)
(***************************************************************************)
Chains == 1..Len(tasks)

Stages(c) == tasks[c].stages

Terminal(c) == Stages(c) # <<>> /\ Last(Stages(c)) \in {"DONE", "FAILED"}

Passed(c, st) == \E i \in 1..Len(Stages(c)) : Stages(c)[i] = st

Count(s, toks) == Cardinality({i \in 1..Len(s) : s[i] \in toks})

\* C1: a chain that ends as DONE has passed GENERATED, REPAIRED and
\* EXECUTED, in that order: the generated program was repaired and run
\* before the chain reports success.
C1_DoneOnlyAfterExecution ==
    \A c \in Chains :
        (Stages(c) # <<>> /\ Last(Stages(c)) = "DONE") =>
            \E g, r, e \in 1..Len(Stages(c)) :
                /\ g < r /\ r < e
                /\ Stages(c)[g] = "GENERATED"
                /\ Stages(c)[r] = "REPAIRED"
                /\ Stages(c)[e] = "EXECUTED"

\* C2: call_aipipe is entered at most once for the prompt, and once the
\* chain that made the call has got its text, every other chain (with a
\* usable url, as the first had) that has finished got past generation too.
C2_MemoServesEveryChain ==
    /\ llmCalls <= 1
    /\ \A c, d \in Chains :
          ( /\ cache[PROMPT].awaiter = d
            /\ Passed(d, "GENERATED")
            /\ Terminal(c)
            /\ tasks[c].data.url # None )
          => Passed(c, "GENERATED")

\* C3: when the program run by run_code_safely fails to compile or raises,
\* no exception leaves run_code_safely.
C3_ExecutionErrorContained ==
    (fnOp \in {"run_code_safely", "run_code_safely_twice"}
        /\ fnProg # "returns")
    => fnExc = "none"

\* The number of times a process_request started for request i was dispatched.
RECURSIVE AttemptsUpTo(_, _)
AttemptsUpTo(i, n) ==
    IF n = 0 THEN 0
    ELSE AttemptsUpTo(i, n - 1)
             + (IF tasks[n].req = i THEN Count(Stages(n), {"DISPATCHED"}) ELSE 0)

Attempts(i) == AttemptsUpTo(i, Len(tasks))

C5_GenerationFailureEndsChain ==
    \A c \in Chains :
        tasks[c].error \in LLMErrors \cup {"RuntimeError"} =>
            /\ Stages(c) = <<"DISPATCHED", "FAILED">>
            /\ tasks[c].calls <= 1
            /\ tasks[c].generated_code = <<>>
            /\ ~tasks[c].escaped

C5_Witness ==
    \E c \in Chains :
        /\ tasks[c].error \in LLMErrors
        /\ tasks[c].calls = 1
        /\ Last(Stages(c)) = "FAILED"

C6_Responses ==
    /\ Len(responses) = Len(requests)
    /\ \A i \in 1..Len(requests) :
          LET mine == {c \in Chains : tasks[c].req = i}
          IN  IF requests[i].secret # SECRET_KEY
              THEN /\ responses[i] =
                          [status |-> 403, content |-> [message |-> "Forbidden"]]
                   /\ mine = {}
              ELSE /\ responses[i].status = 200
                   /\ DOMAIN responses[i].content = {"message", "email"}
                   /\ responses[i].content.email = requests[i].email
                   /\ Cardinality(mine) = 1
                   /\ \A c \in mine : tasks[c].data = requests[i]

\* C6: every POST with a wrong secret is answered 403 Forbidden and enqueues
\* nothing; every other POST enqueues exactly one process_request for its
\* body and is answered 200 with the body's email, and at the moment of the
\* answer that chain has not started.
C6_ReceiveRequestContract ==
    /\ []C6_Responses
    /\ [][Len(tasks') > Len(tasks) =>
             /\ Len(responses') = Len(responses) + 1
             /\ Last(tasks').stages = <<>>]_vars

C6_Witness ==
    \E i, j \in 1..Len(requests) :
        /\ requests[i].secret # SECRET_KEY
        /\ responses[i].status = 403
        /\ requests[j].secret = SECRET_KEY
        /\ responses[j].status = 200
        /\ \E c \in Chains : tasks[c].req = j /\ Terminal(c)

\* C7: repairing a repaired text again changes nothing, for repair_code and
\* for the repair inside run_code_safely.
C7_RepairIdempotent ==
    fnOp \in {"repair_code_twice", "run_code_safely_twice"} => fnOut = fnOnce

\* The start of the identifier path that ends just before index i.
RECURSIVE PathStart(_, _)
PathStart(s, i) ==
    IF i > 1 /\ s[i - 1] \in WordToks THEN PathStart(s, i - 1) ELSE i

IsAwait(s, j) == j >= 3 /\ s[j - 1] = " " /\ s[j - 2] = "await"

\* Every <identifier path>.get( of s is preceded by exactly one await.
AwaitedOnce(s) ==
    \A i \in 2..Len(s) :
        (s[i] = ".get(" /\ s[i - 1] \in WordToks) =>
            LET j == PathStart(s, i)
            IN  IsAwait(s, j) /\ ~IsAwait(s, j - 2)

\* C8: after repair every fetch call is preceded by exactly one await, and a
\* fragment whose fetch calls all are already passes the collapse and
\* insertion steps unchanged.
C8_WaitMarkerInsertion ==
    fnOp \in {"repair_code", "run_code_safely"} =>
        /\ AwaitedOnce(fnOut)
        /\ AwaitedOnce(StripFences(fnText)) =>
              AwaitSub(CollapseAwait(StripFences(fnText))) = StripFences(fnText)

TargetPlaceholders ==
    {"<the quiz URL>", "<the quiz URL you fetched>", "<quiz url>",
     "<quiz_url>", "YOUR_START_URL_HERE", "https://example.com/quiz"}

SubmitTokens == {"<submit url>", "<the quiz submission URL>"}

\* C9: after either repair, for a target URL that is not itself one of the
\* placeholder tokens, no placeholder token is left, the target URL stands
\* wherever a target-URL placeholder (or the URL itself) stood, and the
\* submission-URL placeholders are gone without a substitute.
C9_PlaceholdersSubstituted ==
    (fnOp \in {"repair_code", "run_code_safely"}
        /\ fnUrl \notin TargetPlaceholders) =>
        /\ Count(fnOut, TargetPlaceholders \cup SubmitTokens) = 0
        /\ Count(fnOut, {fnUrl}) = Count(fnText, TargetPlaceholders \cup {fnUrl})

HasFence(s) == FindBlocks(s) # <<>>

\* C10: the extractor never raises; it returns the whole text only when the
\* text has no fenced region and parses; with a fenced region present it
\* returns only stripped fenced contents that parse; with none and a text
\* that does not parse it returns the empty sequence.
C10_ExtractorFallback ==
    fnOp = "extract" =>
        /\ fnExc = "none"
        /\ fnOut = <<fnText>> => (~HasFence(fnText) /\ ast_parse(fnText) = "ok")
        /\ HasFence(fnText) =>
              \A i \in 1..Len(fnOut) :
                  /\ ast_parse(fnOut[i]) = "ok"
                  /\ \E k \in 1..Len(FindBlocks(fnText)) :
                        fnOut[i] = Strip(FindBlocks(fnText)[k])
        /\ (~HasFence(fnText) /\ ast_parse(fnText) # "ok") => fnOut = <<>>

====
